---- MODULE Spec2Model ----
(***************************************************************************)
(* A model of pyam/_aggregate.py: aggregation of an indexed time series    *)
(* along the variable hierarchy, over subregions and over subannual time.  *)
(*                                                                         *)
(* A series is a record [names, rows]: `names` is the sequence of index    *)
(* level names and `rows` a function from keys (records over the names) to *)
(* values.  Values are exact rationals <<n, d>> with d > 0; d = 0 encodes  *)
(* the non-finite floats of a division by zero (<<0,0>> NaN, <<1,0>> inf,  *)
(* <<-1,0>> -inf).  A variable name "A|B" is the sequence <<"A","B">> of   *)
(* its segments.                                                           *)
(***************************************************************************)
EXTENDS Integers, Sequences, FiniteSets, TLC

VARIABLES df, call, ret, wdf, data_list, levels, pc

vars == <<df, call, ret, wdf, data_list, levels, pc>>

(***************************************************************************)
(* Rational arithmetic (the float values of the series, kept exact).       *)
(***************************************************************************)
Abs(x) == IF x < 0 THEN -x ELSE x

RECURSIVE Gcd(_, _)
Gcd(a, b) == IF b = 0 THEN a ELSE Gcd(b, a % b)

Sign(x) == IF x > 0 THEN 1 ELSE IF x < 0 THEN -1 ELSE 0

NaN == <<0, 0>>

IsFinite(r) == r[2] # 0

\* n / d as a normalised rational; x/0 is inf, -inf or NaN as in IEEE floats
Rat(n, d) ==
    IF d = 0 THEN <<Sign(n), 0>>
    ELSE LET g == Gcd(Abs(n), Abs(d))
         IN  <<Sign(d) * (n \div g), Abs(d) \div g>>

RInt(n) == <<n, 1>>

RAdd(a, b) ==
    IF IsFinite(a) /\ IsFinite(b) THEN Rat(a[1] * b[2] + b[1] * a[2], a[2] * b[2])
    ELSE IF a = NaN \/ b = NaN THEN NaN
    ELSE IF IsFinite(a) THEN b
    ELSE IF IsFinite(b) \/ a = b THEN a
    ELSE NaN

RMul(a, b) ==
    IF IsFinite(a) /\ IsFinite(b) THEN Rat(a[1] * b[1], a[2] * b[2])
    ELSE IF a = NaN \/ b = NaN \/ a[1] = 0 \/ b[1] = 0 THEN NaN
    ELSE <<Sign(a[1]) * Sign(b[1]), 0>>

RDiv(a, b) ==
    IF IsFinite(a) /\ IsFinite(b) THEN Rat(a[1] * b[2], a[2] * b[1])
    ELSE NaN

RLess(a, b) == a[1] * b[2] < b[1] * a[2]

(***************************************************************************)
(* Series helpers.                                                         *)
(***************************************************************************)
Range(s) == {s[i] : i \in 1..Len(s)}

EmptyRows == [k \in {} |-> NaN]

\* the names of `names` that are not in `drop`, in their order in `names`
NamesWithout(names, drop) == SelectSeq(names, LAMBDA c : c \notin drop)

\* a key restricted to the levels `cols`
Project(k, cols) == [c \in cols |-> k[c]]

\* the key t (which lacks level `dim`) extended by dim = val
With(t, dim, val) == [c \in DOMAIN t \cup {dim} |-> IF c = dim THEN val ELSE t[c]]

\* the key k without the levels `drop`
Without(k, drop) == [c \in DOMAIN k \ drop |-> k[c]]

\* the rows of a series as a collection of entries; `id` keeps apart entries
\* whose keys coincide after relabelling
Entries(rows) == {[key |-> k, id |-> k, val |-> rows[k]] : k \in DOMAIN rows}

RECURSIVE SumVals(_)
SumVals(es) ==
    IF es = {} THEN RInt(0)
    ELSE LET e == CHOOSE x \in es : TRUE
         IN  RAdd(e.val, SumVals(es \ {e}))

MinVal(es) == (CHOOSE e \in es : \A o \in es : ~RLess(o.val, e.val)).val

MaxVal(es) == (CHOOSE e \in es : \A o \in es : ~RLess(e.val, o.val)).val

MeanVal(es) == RDiv(SumVals(es), RInt(Cardinality(es)))

\* the reduction a resolved method function applies to a group of entries
Reduce(func, es) ==
    CASE func = "sum"  -> SumVals(es)
      [] func = "min"  -> MinVal(es)
      [] func = "max"  -> MaxVal(es)
      [] func = "mean" -> MeanVal(es)

(***************************************************************************)
(* Results of a call: nothing (None), a series, or a raised error.         *)
(***************************************************************************)
RetNone == [kind |-> "none", err |-> "", names |-> <<>>, rows |-> EmptyRows]

RetErr(e) == [kind |-> "error", err |-> e, names |-> <<>>, rows |-> EmptyRows]

RetSeries(s) == [kind |-> "series", err |-> "", names |-> s.names, rows |-> s.rows]

RetInit == [kind |-> "init", err |-> "", names |-> <<>>, rows |-> EmptyRows]

(***************************************************************************)
(* Method identifiers: a string, or an already-callable reduction.         *)
(***************************************************************************)
MStr(n) == [isstr |-> TRUE, name |-> n]

MFun(n) == [isstr |-> FALSE, name |-> n]

KNOWN_FUNCS == {"sum", "mean", "max", "min"}

\* _get_method_func: the resolved function, or the raised error
_get_method_func(method) ==
    IF ~method.isstr THEN [ok |-> TRUE, func |-> method.name]
    ELSE IF method.name \in KNOWN_FUNCS THEN [ok |-> TRUE, func |-> method.name]
    ELSE [ok |-> FALSE, func |-> "UnknownMethodError"]

\* groupby(cols) followed by a reduction: one row per distinct projection of
\* the entries' keys on `cols`
GroupBy(es, cols, func) ==
    [g \in {Project(e.key, cols) : e \in es} |->
        Reduce(func, {e \in es : Project(e.key, cols) = g})]

\* _group_and_agg on a collection of entries with index levels `names`:
\* group by every level not in `by`, reduce each group
_group_and_agg(names, es, by, method) ==
    LET cols == NamesWithout(names, by)
        f    == _get_method_func(method)
    IN  IF ~f.ok THEN RetErr(f.func)
        ELSE RetSeries([names |-> cols, rows |-> GroupBy(es, Range(cols), f.func)])

(***************************************************************************)
(* The variable hierarchy, derived on demand from the delimited names.     *)
(***************************************************************************)
\* depth of a variable: number of separators plus one
find_depth(v) == Len(v)

\* reduce_hierarchy(v, -1): strip the last hierarchy level; the parent of a
\* top-level name is the empty name "", a single empty segment
reduce_hierarchy(v) == IF Len(v) = 1 THEN <<"">> ELSE SubSeq(v, 1, Len(v) - 1)

\* c matches the pattern "v|*"
IsBelow(c, v) == Len(c) > Len(v) /\ SubSeq(c, 1, Len(v)) = v

\* the `level` argument None of _variable_components: no depth restriction
LevelNone == -1

(***************************************************************************)
(* The container's services used by the aggregation functions.             *)
(***************************************************************************)
Variables(d) == {k.variable : k \in DOMAIN d.rows}

\* _variable_components: the variables below `v` present in the data, `level`
\* further separators deep (level 0: direct children; None: any depth)
_variable_components(d, v, lvl) ==
    {c \in Variables(d) :
        IsBelow(c, v) /\ (lvl = LevelNone \/ Len(c) = Len(v) + 1 + lvl)}

\* the rows of `d` whose level `dim` holds one of `vals`, as a new series
Filter(d, dim, vals) ==
    [names |-> d.names,
     rows  |-> [k \in {x \in DOMAIN d.rows : x[dim] \in vals} |-> d.rows[k]]]

\* _all_other_regions: regions other than `region` with data for `variables`
_all_other_regions(d, region, variables) ==
    {k.region : k \in {x \in DOMAIN d.rows : x.variable \in variables}} \ {region}

\* replace_index_values: rewrite level `dim` of every entry by `mapping`
replace_index_values(es, dim, mapping) ==
    {[e EXCEPT !.key = [e.key EXCEPT ![dim] =
                           IF @ \in DOMAIN mapping THEN mapping[@] ELSE @]] : e \in es}

(***************************************************************************)
(* Arguments.                                                              *)
(***************************************************************************)
\* `variable`: a single name (a string) or a list/set of names
VarStr(v) == [isstr |-> TRUE, vs |-> {v}]

VarList(S) == [isstr |-> FALSE, vs |-> S]

\* `components` of _aggregate: None or a list of names
CNone == [given |-> FALSE, items |-> {}]

CList(S) == [given |-> TRUE, items |-> S]

(***************************************************************************)
(* _aggregate: aggregation of components into their parent variable.       *)
(***************************************************************************)
\* (mutant) the default components reach below the next level
DefaultedComponentsDeep(d, v, components) ==
    IF components.given /\ components.items # {} THEN components.items
    ELSE _variable_components(d, v, LevelNone)

\* `components or df._variable_components(variable)`
DefaultedComponents(d, v, components) ==
    IF components.given /\ components.items # {} THEN components.items
    ELSE _variable_components(d, v, 0)

\* the component -> parent mapping built for a list of variables
ListMapping(d, vs) ==
    LET comps == UNION {_variable_components(d, v, 0) : v \in vs}
    IN  [c \in comps |-> CHOOSE v \in vs : c \in _variable_components(d, v, 0)]

\* rename all components to their parent and aggregate
RelabelAndAgg(d, mapping, method) ==
    LET _df == Filter(d, "variable", DOMAIN mapping)
    IN  _group_and_agg(d.names,
                       replace_index_values(Entries(_df.rows), "variable", mapping),
                       {}, method)

\* (mutant) a member without components ends the call instead of being skipped
_aggregate_abort(d, variable, components, method) ==
    IF ~variable.isstr /\ components.given THEN RetErr("InvalidArgumentError")
    ELSE IF variable.isstr
    THEN LET v     == CHOOSE x \in variable.vs : TRUE
             comps == DefaultedComponents(d, v, components)
         IN  IF comps = {} THEN RetNone
             ELSE RelabelAndAgg(d, [c \in comps |-> v], method)
    ELSE IF \E v \in variable.vs : _variable_components(d, v, 0) = {} THEN RetNone
    ELSE RelabelAndAgg(d, ListMapping(d, variable.vs), method)

_aggregate(d, variable, components, method) ==
    IF ~variable.isstr /\ components.given THEN RetErr("InvalidArgumentError")
    ELSE IF variable.isstr
    THEN LET v     == CHOOSE x \in variable.vs : TRUE
             comps == DefaultedComponents(d, v, components)
         IN  IF comps = {} THEN RetNone
             ELSE RelabelAndAgg(d, [c \in comps |-> v], method)
    ELSE RelabelAndAgg(d, ListMapping(d, variable.vs), method)

(***************************************************************************)
(* The order of the rows of a series: the container keeps its data sorted  *)
(* by index, level by level; labels compare as strings.                    *)
(***************************************************************************)
Labels == <<"", "A", "B", "C", "D", "EJ", "Mt", "P", "W", "World", "X",
            "dry", "m", "r1", "r2", "s", "summer", "w", "wet", "winter", "year">>

Rank(x) == CHOOSE i \in 1..Len(Labels) : Labels[i] = x

RECURSIVE SeqLess(_, _)
SeqLess(a, b) ==
    IF b = <<>> THEN FALSE
    ELSE IF a = <<>> THEN TRUE
    ELSE IF Head(a) # Head(b) THEN Rank(Head(a)) < Rank(Head(b))
    ELSE SeqLess(Tail(a), Tail(b))

LevelLess(dim, x, y) ==
    IF dim = "year" THEN x < y
    ELSE IF dim = "variable" THEN SeqLess(x, y)
    ELSE Rank(x) < Rank(y)

RECURSIVE KeyLess(_, _, _)
KeyLess(k1, k2, names) ==
    IF names = <<>> THEN FALSE
    ELSE IF k1[Head(names)] # k2[Head(names)]
         THEN LevelLess(Head(names), k1[Head(names)], k2[Head(names)])
    ELSE KeyLess(k1, k2, Tail(names))

RECURSIVE SortedKeys(_, _)
SortedKeys(K, names) ==
    IF K = {} THEN <<>>
    ELSE LET m == CHOOSE k \in K : \A o \in K \ {k} : KeyLess(k, o, names)
         IN  <<m>> \o SortedKeys(K \ {m}, names)

\* index.droplevel(drop) of the rows K: the remaining labels, row by row
DropLevel(K, names, drop) ==
    LET sorted == SortedKeys(K, names)
    IN  [i \in 1..Len(sorted) |-> [c \in DOMAIN sorted[i] \ drop |-> sorted[i][c]]]

(***************************************************************************)
(* _agg_weight: weighted average over regions.                             *)
(***************************************************************************)
\* the level names of the result of an operation on two series whose levels
\* differ: the common levels first, then the others
JoinNames(left, right) ==
    SelectSeq(left, LAMBDA c : c \in Range(right))
        \o SelectSeq(left, LAMBDA c : c \notin Range(right))

\* (mutant) the data is summed without being multiplied by the weight
_agg_weight_unweighted(names, data, weight, method) ==
    IF method \notin {MStr("sum"), MFun("sum")} THEN RetErr("InvalidArgumentError")
    ELSE IF DropLevel(DOMAIN data, names, {"variable", "unit"})
              # DropLevel(DOMAIN weight, names, {"variable", "unit"})
    THEN RetErr("InconsistentIndexError")
    ELSE
      LET w    == {[key |-> [c \in DOMAIN k \ {"variable", "unit"} |-> k[c]],
                    id |-> k, val |-> weight[k]] : k \in DOMAIN weight}
          col1 == NamesWithout(names, {"region"})
          col2 == NamesWithout(names, {"region", "variable", "unit"})
          num  == GroupBy(Entries(data), Range(col1), "sum")
          den  == GroupBy(w, Range(col2), "sum")
      IN  RetSeries([names |-> JoinNames(col1, col2),
                     rows  |-> [g \in DOMAIN num |->
                                 RDiv(num[g], den[Project(g, Range(col2))])]])

_agg_weight(names, data, weight, method) ==
    IF method \notin {MStr("sum"), MFun("sum")} THEN RetErr("InvalidArgumentError")
    ELSE IF DropLevel(DOMAIN data, names, {"variable", "unit"})
              # DropLevel(DOMAIN weight, names, {"variable", "unit"})
    THEN RetErr("InconsistentIndexError")
    ELSE
      LET w    == {[key |-> [c \in DOMAIN k \ {"variable", "unit"} |-> k[c]],
                    id |-> k, val |-> weight[k]] : k \in DOMAIN weight}
          prod == {[key |-> e[1].key, id |-> <<e[1].id, e[2].id>>,
                    val |-> RMul(e[1].val, e[2].val)] :
                     e \in {x \in Entries(data) \X w :
                              x[2].key = [c \in DOMAIN x[1].key \ {"variable", "unit"}
                                            |-> x[1].key[c]]}}
          col1 == NamesWithout(names, {"region"})
          col2 == NamesWithout(names, {"region", "variable", "unit"})
          num  == GroupBy(prod, Range(col1), "sum")
          den  == GroupBy(w, Range(col2), "sum")
      IN  RetSeries([names |-> JoinNames(col1, col2),
                     rows  |-> [g \in DOMAIN num |->
                                 RDiv(num[g], den[Project(g, Range(col2))])]])

(***************************************************************************)
(* _aggregate_region: aggregation of a variable over subregions.           *)
(***************************************************************************)
\* `components` of _aggregate_region: False, True or a list of names
RCFalse == [mode |-> "False", items |-> {}]

RCTrue == [mode |-> "True", items |-> {}]

RCList(S) == [mode |-> "list", items |-> S]

\* `weight`: None or the name of the weight variable
WNone == [given |-> FALSE, vs |-> {}]

WVar(v) == [given |-> TRUE, vs |-> {v}]

\* (mutant) the subregions default to every region with data, the target too
DefaultedSubregionsAll(d, variable, region, subregions) ==
    IF subregions # {} THEN subregions
    ELSE _all_other_regions(d, "", variable.vs)

\* `subregions or df._all_other_regions(region, variable)`; None is {}
DefaultedSubregions(d, variable, region, subregions) ==
    IF subregions # {} THEN subregions
    ELSE _all_other_regions(d, region, variable.vs)

\* the aggregate over all subregions
SubregionAggregate(subregion_df, variable, method, weight) ==
    LET rows == Filter(subregion_df, "variable", variable.vs).rows
    IN  IF ~weight.given
        THEN _group_and_agg(subregion_df.names, Entries(rows), {"region"}, method)
        ELSE _agg_weight(subregion_df.names, rows,
                         Filter(subregion_df, "variable", weight.vs).rows, method)

\* (mutant) the components found under the subregions are not taken out
RegionComponentsNoDifference(region_df, subregion_df, v, components) ==
    IF components.mode = "True"
    THEN _variable_components(region_df, v, LevelNone)
    ELSE components.items

\* the components added at the `region` level: the given list, or (True) the
\* variables below `variable` present in `region` and in no subregion
RegionComponents(region_df, subregion_df, v, components) ==
    IF components.mode = "True"
    THEN _variable_components(region_df, v, LevelNone)
            \ _variable_components(subregion_df, v, LevelNone)
    ELSE components.items

\* _data.add(other, fill_value=0)
AddFill(a, b) ==
    [k \in DOMAIN a \cup DOMAIN b |->
        RAdd(IF k \in DOMAIN a THEN a[k] ELSE RInt(0),
             IF k \in DOMAIN b THEN b[k] ELSE RInt(0))]

\* rename the components to `variable`, sum them over `region` and add them
AddRegionComponents(_data, region_df, v, comps) ==
    IF comps = {} THEN _data
    ELSE LET _df == Filter(region_df, "variable", comps)
             agg == _group_and_agg(region_df.names,
                                   replace_index_values(Entries(_df.rows), "variable",
                                                        [c \in comps |-> v]),
                                   {"region"}, MFun("sum"))
         IN  [_data EXCEPT !.rows = AddFill(_data.rows, agg.rows)]

_aggregate_region(d, variable, region, subregions, components, method, weight) ==
    IF ~variable.isstr /\ components.mode # "False" THEN RetErr("InvalidArgumentError")
    ELSE IF weight.given /\ components.mode # "False" THEN RetErr("InvalidArgumentError")
    ELSE
      LET subs == DefaultedSubregions(d, variable, region, subregions)
      IN  IF subs = {} THEN RetNone
          ELSE
            LET subregion_df == Filter(d, "region", subs)
                _data == SubregionAggregate(subregion_df, variable, method, weight)
            IN  IF _data.kind = "error" \/ components.mode = "False" THEN _data
                ELSE LET region_df == Filter(d, "region", {region})
                         v == CHOOSE x \in variable.vs : TRUE
                     IN  AddRegionComponents(_data, region_df, v,
                            RegionComponents(region_df, subregion_df, v, components))

(***************************************************************************)
(* _aggregate_time: aggregation over the labels of a subannual column.     *)
(***************************************************************************)
\* the labels of level `dim` present in the data
LabelsOf(d, dim) == {k[dim] : k \in DOMAIN d.rows}

\* `components` defaults to the entries of the subannual column except `value`
DefaultedTimeComponents(d, column, value, components) ==
    IF components.given THEN components.items
    ELSE LabelsOf(d, "subannual") \ {value}

\* pivot the `column` labels into parallel value-columns per remaining key
\* and reduce each row across them
PivotAndReduce(rows, index, func) ==
    GroupBy(Entries(rows), Range(index), func)

\* pd.concat([...], names=[column] + index, keys=[value])
ConcatUnderKey(names, rows, column, value) ==
    [names |-> <<column>> \o names,
     rows  |-> [k \in {With(g, column, value) : g \in DOMAIN rows} |->
                  rows[Without(k, {column})]]]

\* index.reorder_levels(order)
reorder_levels(series, order) == [series EXCEPT !.names = order]

\* the possible results of _aggregate_time; reducing an empty selection is
\* left to the data-frame library, which raises or yields an empty series
_aggregate_time(d, variable, column, value, components, method) ==
    IF ~components.given /\ "subannual" \notin Range(d.names)
    THEN {RetErr("AttributeError")}
    ELSE IF column \notin Range(d.names) THEN {RetErr("ValueError")}
    ELSE
      LET comps == DefaultedTimeComponents(d, column, value, components)
          rows  == Filter(Filter(d, "variable", {variable}), column, comps).rows
          index == NamesWithout(d.names, {column, "value"})
          f     == _get_method_func(method)
      IN  IF DOMAIN rows = {}
          THEN {RetErr("AttributeError"),
                IF f.ok THEN RetSeries([names |-> d.names, rows |-> EmptyRows])
                ELSE RetErr(f.func)}
          ELSE IF ~f.ok THEN {RetErr(f.func)}
          ELSE {RetSeries(reorder_levels(
                   ConcatUnderKey(index, PivotAndReduce(rows, index, f.func),
                                  column, value),
                   d.names))}

(***************************************************************************)
(* _aggregate_recursive: bottom-up aggregation along the variable tree.    *)
(***************************************************************************)
EmptyFrame == [names |-> <<>>, rows |-> EmptyRows]

\* df.aggregate(variable=vars): _aggregate with default components and
\* method, its result wrapped as a data set (empty when there is nothing)
df_aggregate(d, vs) ==
    LET r == _aggregate(d, VarList(vs), CNone, MStr("sum"))
    IN  IF r.kind = "series" THEN [ok |-> TRUE, rows |-> r.rows]
        ELSE IF r.kind = "none" THEN [ok |-> TRUE, rows |-> EmptyRows]
        ELSE [ok |-> FALSE, rows |-> EmptyRows]

\* df.append(other): the rows of both; rows present in both are refused
df_append(d, rows) ==
    IF DOMAIN d.rows \cap DOMAIN rows # {} THEN [ok |-> FALSE, frame |-> d]
    ELSE [ok |-> TRUE,
          frame |-> [d EXCEPT !.rows =
                       [k \in DOMAIN d.rows \cup DOMAIN rows |->
                          IF k \in DOMAIN rows THEN rows[k] ELSE d.rows[k]]]]

\* downselect to the components of `variable`: a new data set
RecursiveWorkingCopy(d, variable) ==
    [names |-> d.names,
     rows  |-> [k \in {x \in DOMAIN d.rows : IsBelow(x.variable, variable)} |->
                  d.rows[k]]]

\* max(find_depth(df.variable))
MaxDepth(d) ==
    CHOOSE n \in {find_depth(v) : v \in Variables(d)} :
        \A v \in Variables(d) : find_depth(v) <= n

\* (mutant) the depth levels shallowest first: the `reversed` is lost
LevelOrderTopDown(maxd) == [i \in 1..maxd |-> i]

\* reversed(range(1, maxd + 1)): the depth levels, deepest first
LevelOrder(maxd) == [i \in 1..maxd |-> maxd + 1 - i]

\* the parents of the variables at depth dd
LevelParents(d, dd) ==
    {reduce_hierarchy(v) : v \in {x \in Variables(d) : find_depth(x) = dd}}

\* pd.concat(data_list)
RECURSIVE Concat(_)
Concat(list) ==
    IF list = <<>> THEN EmptyRows
    ELSE LET rest == Concat(Tail(list))
         IN  [k \in DOMAIN Head(list) \cup DOMAIN rest |->
                IF k \in DOMAIN Head(list) THEN Head(list)[k] ELSE rest[k]]

\* (mutant) the filter hands back the caller's data set itself, not a copy
AppendInPlaceAliased(caller, work, rows) ==
    [caller |-> df_append(caller, rows).frame, work |-> df_append(work, rows).frame]

\* the data sets after df.append(_df, inplace=True): the append acts on the
\* working copy made by the filter, not on the caller's data set
AppendInPlace(caller, work, rows) ==
    [caller |-> caller, work |-> df_append(work, rows).frame]

(***************************************************************************)
(* Data sets.                                                              *)
(***************************************************************************)
IAMC_IDX == <<"model", "scenario", "region", "variable", "unit", "year">>

\* a key of a data set without extra columns
Key(r, v, u, y) ==
    [model |-> "m", scenario |-> "s", region |-> r, variable |-> v,
     unit |-> u, year |-> y]

\* a key of a data set with the extra columns subannual and season
TimeKey(v, y, sub, sea) ==
    [model |-> "m", scenario |-> "s", region |-> "World", variable |-> v,
     unit |-> "EJ", year |-> y, subannual |-> sub, season |-> sea]

RECURSIVE SubsetsUpTo(_, _)
SubsetsUpTo(S, n) ==
    IF n = 0 THEN {{}}
    ELSE LET smaller == SubsetsUpTo(S, n - 1)
         IN  smaller \cup {p \cup {x} : p \in smaller, x \in S}

\* every series over at most n of the keys K, with values from V
Datasets(names, K, V, n) ==
    {[names |-> names, rows |-> r] :
        r \in UNION {[S -> V] : S \in SubsetsUpTo(K, n)}}

Years == {2005, 2010}

DataValues == {RInt(1), RInt(2)}

VarA == <<"A">>
VarAB == <<"A", "B">>
VarAC == <<"A", "C">>
VarABC == <<"A", "B", "C">>
VarABD == <<"A", "B", "D">>
VarP == <<"P">>
VarW == <<"W">>
VarX == <<"X">>

Methods == {MStr("sum"), MStr("min"), MStr("max"), MStr("mean"), MStr("bogus"),
            MFun("sum"), MFun("max")}

SomeMethods == {MStr("sum"), MStr("mean"), MStr("bogus"), MFun("sum"), MFun("max")}

(***************************************************************************)
(* The operations.                                                         *)
(***************************************************************************)
InitIdle ==
    /\ call = [op |-> "none"]
    /\ ret = RetInit
    /\ wdf = EmptyFrame
    /\ data_list = <<>>
    /\ levels = <<>>
    /\ pc = "idle"

\* a caller invokes _aggregate and receives its result
aggregate(variable, components, method) ==
    /\ pc = "idle"
    /\ call' = [op |-> "aggregate", variable |-> variable,
                components |-> components, method |-> method]
    /\ ret' = _aggregate(df, variable, components, method)
    /\ pc' = "returned"
    /\ UNCHANGED <<df, wdf, data_list, levels>>

\* a caller invokes _aggregate_region
aggregate_region(variable, region, subregions, components, method, weight) ==
    /\ pc = "idle"
    /\ call' = [op |-> "aggregate_region", variable |-> variable, region |-> region,
                subregions |-> subregions, components |-> components,
                method |-> method, weight |-> weight]
    /\ ret' = _aggregate_region(df, variable, region, subregions, components,
                                method, weight)
    /\ pc' = "returned"
    /\ UNCHANGED <<df, wdf, data_list, levels>>

\* a caller invokes _aggregate_time
aggregate_time(variable, column, value, components, method) ==
    /\ pc = "idle"
    /\ call' = [op |-> "aggregate_time", variable |-> variable, column |-> column,
                value |-> value, components |-> components, method |-> method]
    /\ ret' \in _aggregate_time(df, variable, column, value, components, method)
    /\ pc' = "returned"
    /\ UNCHANGED <<df, wdf, data_list, levels>>

\* _aggregate_recursive, entry: downselect, then iterate over the depth
\* levels from the deepest one; max() of no depth raises
aggregate_recursive(variable) ==
    /\ pc = "idle"
    /\ call' = [op |-> "aggregate_recursive", variable |-> variable]
    /\ LET work == RecursiveWorkingCopy(df, variable)
       IN  /\ wdf' = work
           /\ IF Variables(work) = {}
              THEN /\ ret' = RetErr("ValueError")
                   /\ levels' = <<>>
                   /\ pc' = "returned"
              ELSE /\ ret' = RetInit
                   /\ levels' = LevelOrder(MaxDepth(work))
                   /\ pc' = "loop"
    /\ UNCHANGED <<df, data_list>>

\* _aggregate_recursive, one pass of the loop: aggregate the parents of the
\* variables at the next depth level, append the result to the working data set
aggregate_level ==
    /\ pc = "loop"
    /\ levels # <<>>
    /\ LET agg == df_aggregate(wdf, LevelParents(wdf, Head(levels)))
       IN  IF ~agg.ok \/ ~df_append(wdf, agg.rows).ok
           THEN /\ ret' = RetErr("ValueError")
                /\ pc' = "returned"
                /\ UNCHANGED <<df, wdf, data_list, levels>>
           ELSE /\ df' = AppendInPlace(df, wdf, agg.rows).caller
                /\ wdf' = AppendInPlace(df, wdf, agg.rows).work
                /\ data_list' = Append(data_list, agg.rows)
                /\ levels' = Tail(levels)
                /\ UNCHANGED <<ret, pc>>
    /\ UNCHANGED call

\* _aggregate_recursive, exit: the per-level results, concatenated
aggregate_recursive_return ==
    /\ pc = "loop"
    /\ levels = <<>>
    /\ ret' = RetSeries([names |-> wdf.names, rows |-> Concat(data_list)])
    /\ pc' = "returned"
    /\ UNCHANGED <<df, call, wdf, data_list, levels>>

\* the caller has merged or dropped the result; the series built by the call
\* are discarded
discard ==
    /\ pc = "returned"
    /\ call' = [op |-> "none"]
    /\ ret' = RetInit
    /\ wdf' = EmptyFrame
    /\ data_list' = <<>>
    /\ levels' = <<>>
    /\ pc' = "idle"
    /\ UNCHANGED df

(***************************************************************************)
(* Variable aggregation.                                                   *)
(***************************************************************************)
MaxRowsVar == 3

VarKeys == {Key("World", v, "EJ", y) : v \in {VarA, VarAB, VarAC, VarABD, VarX}, y \in Years}

VarTargets == {VarStr(VarA), VarStr(VarAB), VarStr(VarX),
               VarList({VarA, VarAB}), VarList({VarA, VarX}), VarList({VarX})}

VarComponents == {CNone, CList({}), CList({VarAB}), CList({VarAC, VarABD}), CList({VarA, VarX})}

InitVariable ==
    /\ df \in Datasets(IAMC_IDX, VarKeys, DataValues, MaxRowsVar)
    /\ InitIdle

NextVariable ==
    \/ \E variable \in VarTargets, components \in VarComponents, method \in Methods :
          aggregate(variable, components, method)
    \/ discard

SpecVariable == InitVariable /\ [][NextVariable]_vars

(***************************************************************************)
(* Region aggregation, without weights and components.                     *)
(***************************************************************************)
MaxRowsRegion == 3

RegionKeys == {Key(r, v, "EJ", y) :
                 r \in {"World", "r1", "r2"}, v \in {VarA, VarAB}, y \in Years}

InitRegion ==
    /\ df \in Datasets(IAMC_IDX, RegionKeys, DataValues, MaxRowsRegion)
    /\ InitIdle

NextRegion ==
    \/ \E variable \in {VarStr(VarA), VarList({VarA, VarAB})},
          subregions \in {{}, {"r1"}, {"World", "r1"}},
          method \in Methods :
          aggregate_region(variable, "World", subregions, RCFalse, method, WNone)
    \/ discard

SpecRegion == InitRegion /\ [][NextRegion]_vars

(***************************************************************************)
(* Region aggregation with components at the region level.                 *)
(***************************************************************************)
MaxRowsComponents == 3

ComponentsKeys == {Key(r, v, "EJ", y) :
                     r \in {"World", "r1", "r2"}, v \in {VarA, VarAB, VarABD},
                     y \in Years}

InitComponents ==
    /\ df \in Datasets(IAMC_IDX, ComponentsKeys, DataValues, MaxRowsComponents)
    /\ InitIdle

NextComponents ==
    \/ \E subregions \in {{}, {"r1"}, {"World", "r1"}},
          components \in {RCTrue, RCList({VarAB})},
          method \in {MStr("sum"), MStr("max"), MStr("bogus")} :
          aggregate_region(VarStr(VarA), "World", subregions, components, method,
                           WNone)
    \/ discard

SpecComponents == InitComponents /\ [][NextComponents]_vars

(***************************************************************************)
(* Region aggregation with weights.                                        *)
(***************************************************************************)
MaxRowsWeight == 4

WeightValues == {RInt(0), RInt(1), RInt(2)}

WeightKeys == {Key(r, v, "EJ", y) : r \in {"r1", "r2"}, v \in {VarA, VarP}, y \in Years}
                \cup {Key(r, VarW, "w", y) : r \in {"r1", "r2"}, y \in Years}

InitWeight ==
    /\ df \in {d \in Datasets(IAMC_IDX, WeightKeys, WeightValues, MaxRowsWeight) :
                 \A k \in DOMAIN d.rows : k.variable # VarW => d.rows[k] \in DataValues}
    /\ InitIdle

NextWeight ==
    \/ \E variable \in {VarStr(VarA), VarList({VarA, VarP})},
          subregions \in {{}, {"r1"}},
          method \in {MStr("sum"), MFun("sum"), MStr("mean")} :
          aggregate_region(variable, "World", subregions, RCFalse, method, WVar(VarW))
    \/ discard

SpecWeight == InitWeight /\ [][NextWeight]_vars

(***************************************************************************)
(* Recursive aggregation.                                                  *)
(***************************************************************************)
MaxRowsRecursive == 3

VarAE == <<"A", "E">>

RecursiveValues == {RInt(1), RInt(2), RInt(3)}

RecursiveKeys == {Key("World", v, "EJ", y) :
                    v \in {VarA, VarAB, VarABC, VarABD, VarAE, VarX}, y \in Years}

InitRecursive ==
    /\ df \in Datasets(IAMC_IDX, RecursiveKeys, RecursiveValues, MaxRowsRecursive)
    /\ InitIdle

NextRecursive ==
    \/ \E variable \in {VarA, VarAB, VarX} : aggregate_recursive(variable)
    \/ aggregate_level
    \/ aggregate_recursive_return
    \/ discard

SpecRecursive == InitRecursive /\ [][NextRecursive]_vars

(***************************************************************************)
(* Time aggregation.                                                       *)
(***************************************************************************)
MaxRowsTime == 3

TIME_IDX == IAMC_IDX \o <<"subannual", "season">>

TimeKeys == {TimeKey(v, 2005, sub, sea) :
               v \in {VarA, VarX}, sub \in {"year", "summer", "winter"},
               sea \in {"year", "dry", "summer"}}

InitTime ==
    /\ df \in Datasets(TIME_IDX, TimeKeys, DataValues, MaxRowsTime)
    /\ InitIdle

NextTime ==
    \/ \E column \in {"subannual", "season"},
          components \in {CNone, CList({"summer"}), CList({"summer", "winter"})},
          method \in Methods :
          aggregate_time(VarA, column, "year", components, method)
    \/ discard

SpecTime == InitTime /\ [][NextTime]_vars

(***************************************************************************)
(* All entry points on one data set.                                       *)
(***************************************************************************)
MaxRows == 2

SUB_IDX == IAMC_IDX \o <<"subannual">>

AllKeys == {[model |-> "m", scenario |-> "s", region |-> r, variable |-> v,
             unit |-> "EJ", year |-> 2005, subannual |-> sub] :
              r \in {"World", "r1"}, v \in {VarA, VarAB, VarABD, VarX},
              sub \in {"year", "summer"}}

Init ==
    /\ df \in Datasets(SUB_IDX, AllKeys, DataValues, MaxRows)
    /\ InitIdle

Next ==
    \/ \E variable \in {VarStr(VarA), VarStr(VarX), VarList({VarA, VarX}), VarList({VarX})},
          components \in {CNone, CList({VarAB})},
          method \in SomeMethods :
          aggregate(variable, components, method)
    \/ \E variable \in {VarStr(VarA), VarStr(VarX)},
          subregions \in {{}, {"r1"}},
          components \in {RCFalse, RCTrue},
          method \in SomeMethods,
          weight \in {WNone, WVar(VarAB)} :
          aggregate_region(variable, "World", subregions, components, method, weight)
    \/ \E components \in {CNone, CList({"summer"})}, method \in SomeMethods :
          aggregate_time(VarA, "subannual", "year", components, method)
    \/ \E variable \in {VarA, VarAB} : aggregate_recursive(variable)
    \/ aggregate_level
    \/ aggregate_recursive_return
    \/ discard

Spec == Init /\ [][Next]_vars

(***************************************************************************)
(* Reference definitions used to state the properties: the reduction of a  *)
(* set of rows, written out without the grouping machinery above.          *)
(***************************************************************************)
\* a method that resolves to a reduction
MethodValid(m) == ~m.isstr \/ m.name \in {"sum", "mean", "max", "min"}

RECURSIVE SumRows(_, _)
SumRows(rows, K) ==
    IF K = {} THEN RInt(0)
    ELSE LET k == CHOOSE x \in K : TRUE
         IN  RAdd(rows[k], SumRows(rows, K \ {k}))

\* r is the reduction by `func` of the values of the rows K
Agrees(func, r, rows, K) ==
    CASE func = "sum"  -> r = SumRows(rows, K)
      [] func = "mean" -> RMul(r, RInt(Cardinality(K))) = SumRows(rows, K)
      [] func = "min"  -> (\E k \in K : rows[k] = r) /\ (\A k \in K : ~RLess(rows[k], r))
      [] func = "max"  -> (\E k \in K : rows[k] = r) /\ (\A k \in K : ~RLess(r, rows[k]))

IsDirectChild(c, V) == Len(c) = Len(V) + 1 /\ \A i \in 1..Len(V) : c[i] = V[i]

\* the rows of the direct children of V at the non-variable tuple t
ChildRowsAt(d, V, t) ==
    {k \in DOMAIN d.rows : IsDirectChild(k.variable, V) /\ Without(k, {"variable"}) = t}

ChildTuples(d, V) ==
    {Without(k, {"variable"}) : k \in {x \in DOMAIN d.rows : IsDirectChild(x.variable, V)}}

(***************************************************************************)
(* C1: variable aggregation with components omitted.  For every target V   *)
(* (alone or member of a set) with at least one direct child, the result   *)
(* has, for each tuple of non-variable dimensions at which a direct child  *)
(* of V has a row, exactly one row labelled V, whose value is the          *)
(* reduction by `method` of the direct children's values at that tuple;    *)
(* deeper descendants and V itself do not contribute, and the result has   *)
(* no other rows.                                                          *)
(***************************************************************************)
C1_ChildrenReduction ==
    (pc = "returned" /\ call.op = "aggregate" /\ ~call.components.given
        /\ MethodValid(call.method)) =>
      LET targets == {V \in call.variable.vs : ChildTuples(df, V) # {}}
      IN  targets # {} =>
            /\ ret.kind = "series"
            /\ ret.names = df.names
            /\ DOMAIN ret.rows =
                 {With(t, "variable", V) : <<V, t>> \in
                    UNION {{<<T, u>> : u \in ChildTuples(df, T)} : T \in targets}}
            /\ \A V \in targets : \A t \in ChildTuples(df, V) :
                 Agrees(call.method.name, ret.rows[With(t, "variable", V)],
                        df.rows, ChildRowsAt(df, V, t))

\* A|B = 1 and A|C = 2 at the same key yield A = 3, a row of A|B|D beside them
C1_Witness ==
    /\ pc = "returned" /\ call.op = "aggregate" /\ ~call.components.given
    /\ call.variable = VarList({VarA, VarX}) /\ call.method = MStr("sum")
    /\ Key("World", VarAB, "EJ", 2005) \in DOMAIN df.rows
    /\ Key("World", VarAC, "EJ", 2005) \in DOMAIN df.rows
    /\ Key("World", VarABD, "EJ", 2005) \in DOMAIN df.rows
    /\ df.rows[Key("World", VarAB, "EJ", 2005)] = RInt(1)
    /\ df.rows[Key("World", VarAC, "EJ", 2005)] = RInt(2)
    /\ ret.kind = "series"
    /\ ret.rows = (Key("World", VarA, "EJ", 2005) :> RInt(3))

\* the key k relabelled to variable V
Relabel(k, V) == [k EXCEPT !.variable = V]

\* the reduction by `func` of the values of the rows K, as a value
RefReduce(func, rows, K) ==
    CASE func = "sum"  -> SumRows(rows, K)
      [] func = "mean" -> RDiv(SumRows(rows, K), RInt(Cardinality(K)))
      [] func = "min"  -> CHOOSE r \in {rows[k] : k \in K} :
                             \A k \in K : ~RLess(rows[k], r)
      [] func = "max"  -> CHOOSE r \in {rows[k] : k \in K} :
                             \A k \in K : ~RLess(r, rows[k])

\* the result holds exactly the rows K of `rows`, relabelled by `label` and
\* reduced by `func` per resulting key
IsReductionOf(result, func, rows, K, label(_)) ==
    /\ DOMAIN result = {label(k) : k \in K}
    /\ \A t \in DOMAIN result :
         Agrees(func, result[t], rows, {k \in K : label(k) = t})

Returned(op) == pc = "returned" /\ call.op = op

(***************************************************************************)
(* C6: variable aggregation of a single name with an explicitly given      *)
(* `components` list uses exactly the listed variables: the result is the  *)
(* reduction of the rows of the listed components only (nothing when they  *)
(* have no rows); no unlisted variable contributes and auto-detection is   *)
(* not consulted.                                                          *)
(***************************************************************************)
C6_ExplicitComponentsOnly ==
    (Returned("aggregate") /\ call.variable.isstr /\ call.components.given
        /\ MethodValid(call.method)) =>
      LET V      == CHOOSE x \in call.variable.vs : TRUE
          listed == {k \in DOMAIN df.rows : k.variable \in call.components.items}
      IN  /\ ret.kind \in {"none", "series"}
          /\ listed # {} => ret.kind = "series"
          /\ IsReductionOf(ret.rows, call.method.name, df.rows, listed,
                           LAMBDA k : Relabel(k, V))

(***************************************************************************)
(* C4: nothing to aggregate is never an error.  A single variable without  *)
(* components returns nothing; region aggregation of a variable that       *)
(* exists in no subregion returns nothing; in a set of variables a member  *)
(* without components contributes no row while every other member is       *)
(* aggregated as if alone.  (Calls whose arguments conflict, or whose      *)
(* method is unknown while there is something to aggregate, raise for      *)
(* that reason.)                                                           *)
(***************************************************************************)
HasChildren(d, V) == \E k \in DOMAIN d.rows : IsDirectChild(k.variable, V)

ArgumentsConflict ==
    \/ ~call.variable.isstr /\ call.components.mode # "False"
    \/ call.weight.given /\ call.components.mode # "False"

\* the rows a member of a set yields when it is aggregated alone
AloneRows(V, method) ==
    LET r == _aggregate(df, VarStr(V), CNone, method)
    IN  IF r.kind = "series" THEN r.rows ELSE EmptyRows

C4_NothingIsNoError ==
    /\ (Returned("aggregate") /\ call.variable.isstr /\ ~call.components.given
          /\ ~HasChildren(df, CHOOSE x \in call.variable.vs : TRUE))
         => ret = RetNone
    /\ (Returned("aggregate_region") /\ call.subregions = {} /\ ~ArgumentsConflict
          /\ \A k \in DOMAIN df.rows :
                k.variable \in call.variable.vs => k.region = call.region)
         => ret = RetNone
    /\ (Returned("aggregate") /\ ~call.variable.isstr /\ ~call.components.given
          /\ MethodValid(call.method))
         => /\ ret.kind = "series"
            /\ \A V \in call.variable.vs :
                 /\ ~HasChildren(df, V) => \A k \in DOMAIN ret.rows : k.variable # V
                 /\ \A k \in DOMAIN AloneRows(V, call.method) :
                      k \in DOMAIN ret.rows /\ ret.rows[k] = AloneRows(V, call.method)[k]
            /\ \A k \in DOMAIN ret.rows :
                 \E V \in call.variable.vs : k \in DOMAIN AloneRows(V, call.method)

\* the set {A, X}: X has no components and is skipped, A is still aggregated
C4_Witness ==
    /\ Returned("aggregate")
    /\ call.variable = VarList({VarA, VarX})
    /\ ~HasChildren(df, VarX) /\ HasChildren(df, VarA)
    /\ \E k \in DOMAIN df.rows : k.variable = VarX
    /\ ret.kind = "series"
    /\ \E k \in DOMAIN ret.rows : k.variable = VarA

(***************************************************************************)
(* C5: an invalid method is always raised to the caller: variable or       *)
(* region aggregation with a method name outside the known names raises,   *)
(* and region aggregation with a weight and a method other than sum        *)
(* raises; the call neither returns a result nor returns nothing.          *)
(***************************************************************************)
C5_InvalidMethodRaises ==
    /\ ((Returned("aggregate") \/ Returned("aggregate_region"))
          /\ call.method.isstr /\ call.method.name \notin KNOWN_FUNCS)
         => ret.kind = "error"
    /\ (Returned("aggregate_region") /\ call.weight.given
          /\ call.method \notin {MStr("sum"), MFun("sum")})
         => ret.kind = "error"

EffectiveSubregions ==
    IF call.subregions # {} THEN call.subregions
    ELSE {k.region : k \in {x \in DOMAIN df.rows :
                              x.variable \in call.variable.vs /\ x.region # call.region}}

\* the rows of the variable under the subregions
SubregionRows ==
    {k \in DOMAIN df.rows :
        k.variable \in call.variable.vs /\ k.region \in EffectiveSubregions}

DropRegion(k) == Without(k, {"region"})

(***************************************************************************)
(* C3: region aggregation with components=False and no weight.  The result *)
(* holds, per tuple of non-region dimensions, the reduction by `method` of  *)
(* the rows of `variable` over exactly the subregions; the subregions      *)
(* default to the regions other than the target that have data for         *)
(* `variable`, so rows under the target do not contribute; the region      *)
(* dimension is removed from the result's key.                             *)
(***************************************************************************)
C3_SubregionReduction ==
    (Returned("aggregate_region") /\ call.components.mode = "False"
        /\ ~call.weight.given /\ MethodValid(call.method)) =>
      IF EffectiveSubregions = {} THEN ret = RetNone
      ELSE /\ ret.kind = "series"
           /\ ret.names = NamesWithout(df.names, {"region"})
           /\ \A t \in DOMAIN ret.rows : "region" \notin DOMAIN t
           /\ call.subregions = {} => \A k \in SubregionRows : k.region # call.region
           /\ IsReductionOf(ret.rows, call.method.name, df.rows, SubregionRows,
                            DropRegion)

\* World = r1 + r2 = 1 + 2 = 3, the row recorded under World is left out
C3_Witness ==
    /\ Returned("aggregate_region")
    /\ call.variable = VarStr(VarA) /\ call.subregions = {} /\ call.method = MStr("sum")
    /\ DOMAIN df.rows = {Key(r, VarA, "EJ", 2005) : r \in {"World", "r1", "r2"}}
    /\ df.rows[Key("r1", VarA, "EJ", 2005)] = RInt(1)
    /\ df.rows[Key("r2", VarA, "EJ", 2005)] = RInt(2)
    /\ df.rows[Key("World", VarA, "EJ", 2005)] = RInt(2)
    /\ ret.rows = (DropRegion(Key("World", VarA, "EJ", 2005)) :> RInt(3))

\* the result of region aggregation with auto-detected components, when the
\* components are the variables c with IsComponent(c): the subregion
\* aggregate plus the sum of the components' rows under the target region,
\* a key missing on either side counting as zero
RegionPlusComponents(IsComponent(_)) ==
    LET V     == CHOOSE x \in call.variable.vs : TRUE
        InRegion(c) == \E k \in DOMAIN df.rows : k.variable = c /\ k.region = call.region
        InSubs(c)   == \E k \in DOMAIN df.rows :
                          k.variable = c /\ k.region \in EffectiveSubregions
        comps == {c \in Variables(df) : IsComponent(c) /\ InRegion(c) /\ ~InSubs(c)}
        extra == {k \in DOMAIN df.rows : k.variable \in comps /\ k.region = call.region}
        Target(k) == DropRegion(Relabel(k, V))
        BaseAt(t)  == {k \in SubregionRows : DropRegion(k) = t}
        ExtraAt(t) == {k \in extra : Target(k) = t}
    IN  IF EffectiveSubregions = {} THEN ret = RetNone
        ELSE /\ ret.kind = "series"
             /\ DOMAIN ret.rows = {DropRegion(k) : k \in SubregionRows}
                                    \cup {Target(k) : k \in extra}
             /\ \A t \in DOMAIN ret.rows :
                  ret.rows[t] =
                    RAdd(IF BaseAt(t) = {} THEN RInt(0)
                         ELSE RefReduce(call.method.name, df.rows, BaseAt(t)),
                         SumRows(df.rows, ExtraAt(t)))
             /\ comps = {} =>
                  IsReductionOf(ret.rows, call.method.name, df.rows, SubregionRows,
                                DropRegion)

ComponentsTrueCall ==
    Returned("aggregate_region") /\ call.components.mode = "True"
        /\ MethodValid(call.method)

(***************************************************************************)
(* C9 as stated: with components=True the auto-detected components are     *)
(* the direct children of `variable` with rows under the target region and *)
(* none under a subregion; the result is the subregion aggregate plus the  *)
(* sum of these components' region-level values, missing keys counting as  *)
(* zero.                                                                   *)
(***************************************************************************)
C9_DirectChildrenOnly ==
    ComponentsTrueCall =>
      RegionPlusComponents(LAMBDA c : IsDirectChild(c, CHOOSE x \in call.variable.vs : TRUE))

(***************************************************************************)
(* C9, amended: with components=True the auto-detected components are the  *)
(* variables below `variable` at any depth with rows under the target      *)
(* region and none under a subregion; the result is the subregion          *)
(* aggregate plus the sum of these components' region-level values,        *)
(* missing keys counting as zero; with no such component it is the         *)
(* subregion aggregate alone.                                              *)
(***************************************************************************)
C9_AllDescendants ==
    ComponentsTrueCall =>
      RegionPlusComponents(LAMBDA c : IsBelow(c, CHOOSE x \in call.variable.vs : TRUE))

\* A|B is reported under World only and is added to the subregion aggregate
C9_Witness ==
    /\ ComponentsTrueCall
    /\ call.subregions = {} /\ call.method = MStr("sum")
    /\ DOMAIN df.rows = {Key("r1", VarA, "EJ", 2005), Key("World", VarAB, "EJ", 2005),
                         Key("World", VarAB, "EJ", 2010)}
    /\ df.rows[Key("r1", VarA, "EJ", 2005)] = RInt(1)
    /\ df.rows[Key("World", VarAB, "EJ", 2005)] = RInt(2)
    /\ ret.kind = "series"
    /\ ret.rows[DropRegion(Key("r1", VarA, "EJ", 2005))] = RInt(3)
    /\ ret.rows[DropRegion(Key("r1", VarA, "EJ", 2010))] = df.rows[Key("World", VarAB, "EJ", 2010)]

\* the rows of the weight variable under the subregions
WeightRows ==
    {k \in DOMAIN df.rows :
        k.variable \in call.weight.vs /\ k.region \in EffectiveSubregions}

\* the weight rows a key is weighted by: those agreeing with it on every
\* dimension but variable and unit
WeightsOf(k) ==
    {w \in WeightRows : Without(w, {"variable", "unit"}) = Without(k, {"variable", "unit"})}

\* data and weight indexes agree after dropping variable and unit
IndexesAgree ==
    DropLevel(SubregionRows, df.names, {"variable", "unit"})
        = DropLevel(WeightRows, df.names, {"variable", "unit"})

\* value * weight of the row k (zero when no weight row matches it)
Weighted(k) ==
    SumRows([w \in WeightsOf(k) |-> RMul(df.rows[k], df.rows[w])], WeightsOf(k))

\* sum over the subregions of value * weight, at the non-region tuple t
WeightedSumAt(t) ==
    SumRows([k \in SubregionRows |-> Weighted(k)],
            {k \in SubregionRows : DropRegion(k) = t})

\* sum of the weights over the subregions, per tuple of the dimensions but
\* region, variable and unit
WeightSumAt(t) ==
    SumRows(df.rows,
            {w \in WeightRows :
               Without(w, {"region", "variable", "unit"}) = Without(t, {"variable", "unit"})})

WeightedSumCall ==
    /\ Returned("aggregate_region") /\ call.weight.given
    /\ call.method \in {MStr("sum"), MFun("sum")}
    /\ EffectiveSubregions # {} /\ IndexesAgree

C7_WitnessOneVariable ==
    /\ WeightedSumCall
    /\ call.variable = VarStr(VarA)
    /\ df.rows = (Key("r1", VarA, "EJ", 2005) :> RInt(1)
                    @@ Key("r2", VarA, "EJ", 2005) :> RInt(2)
                    @@ Key("r1", VarW, "w", 2005) :> RInt(1)
                    @@ Key("r2", VarW, "w", 2005) :> RInt(2))
    /\ ret.rows = (DropRegion(Key("r1", VarA, "EJ", 2005)) :> Rat(5, 3))

\* the descendants of the root the recursive call works on
Work == RecursiveWorkingCopy(df, call.variable)

\* a recursive call under way or returned, that has not raised
RecursiveRunning ==
    /\ call.op = "aggregate_recursive"
    /\ pc \in {"loop", "returned"}
    /\ ret.kind # "error"

\* the depth level processed by pass i, the deepest level being pass 1
PassLevel(i) == MaxDepth(Work) + 1 - i

DropVariable(k) == Without(k, {"variable"})

\* the rows of the direct children of P in the rows `rows`, at the tuple of k
ChildrenIn(rows, k) ==
    {c \in DOMAIN rows :
        IsDirectChild(c.variable, k.variable) /\ DropVariable(c) = DropVariable(k)}

\* the data is carried by leaf variables only
LeafOnly(d) ==
    \A v \in Variables(d) : \A w \in Variables(d) : ~IsBelow(w, v)

\* the rows of the leaf descendants of the variable of k, at the tuple of k
LeavesBelow(k) ==
    {c \in DOMAIN Work.rows :
        IsBelow(c.variable, k.variable) /\ DropVariable(c) = DropVariable(k)}

(***************************************************************************)
(* C2: recursive aggregation is strictly bottom-up.  The depth levels are  *)
(* processed from the deepest level present down to depth 1; the           *)
(* aggregates of a level are in the working data set before the next       *)
(* shallower level is aggregated, so every aggregate is the sum of its     *)
(* direct children in the working data set, aggregated children included;  *)
(* the output lists the per-level results deepest first.  For data carried *)
(* by leaf variables only, every internal node and the root equal the sum  *)
(* of their leaf descendants at matching keys.                             *)
(***************************************************************************)
C2_BottomUp ==
    RecursiveRunning =>
      LET n == Len(data_list)
      IN  /\ n + Len(levels) = MaxDepth(Work)
          /\ \A i \in 1..Len(levels) : levels[i] = PassLevel(n + i)
          /\ \A i \in 1..n :
               /\ \A k \in DOMAIN data_list[i] :
                    /\ find_depth(k.variable) = PassLevel(i) - 1
                    /\ k \in DOMAIN wdf.rows /\ wdf.rows[k] = data_list[i][k]
                    /\ ChildrenIn(wdf.rows, k) # {}
                    /\ data_list[i][k] = SumRows(wdf.rows, ChildrenIn(wdf.rows, k))
               /\ \A c \in DOMAIN wdf.rows :
                    (find_depth(c.variable) = PassLevel(i) /\ PassLevel(i) > 1) =>
                       Relabel(c, reduce_hierarchy(c.variable)) \in DOMAIN data_list[i]
          /\ pc = "returned" =>
               /\ ret.kind = "series"
               /\ DOMAIN ret.rows = UNION {DOMAIN data_list[i] : i \in 1..n}
               /\ \A i \in 1..n : \A k \in DOMAIN data_list[i] :
                    ret.rows[k] = data_list[i][k]
               /\ LeafOnly(Work) =>
                    \A k \in DOMAIN ret.rows :
                       (k.variable = call.variable \/ IsBelow(k.variable, call.variable))
                          => ret.rows[k] = SumRows(Work.rows, LeavesBelow(k))

\* A|B|C=1, A|B|D=2, A|E=3 yields A|B=3 and then A=6
C2_Witness ==
    /\ RecursiveRunning /\ pc = "returned"
    /\ call.variable = VarA
    /\ df.rows = (Key("World", VarABC, "EJ", 2005) :> RInt(1)
                    @@ Key("World", VarABD, "EJ", 2005) :> RInt(2)
                    @@ Key("World", VarAE, "EJ", 2005) :> RInt(3))
    /\ data_list[1] = (Key("World", VarAB, "EJ", 2005) :> RInt(3))
    /\ data_list[2] = (Key("World", VarA, "EJ", 2005) :> RInt(6))
    /\ ret.rows = (Key("World", VarAB, "EJ", 2005) :> RInt(3)
                     @@ Key("World", VarA, "EJ", 2005) :> RInt(6))

\* the components of a time aggregation as documented: the given labels, or
\* all labels present in `column` except `value`
ColumnComponents ==
    IF call.components.given THEN call.components.items
    ELSE LabelsOf(df, call.column) \ {call.value}

\* the rows of `variable` whose `column` label is one of the components
ComponentRows ==
    {k \in DOMAIN df.rows :
        k.variable = call.variable /\ k[call.column] \in ColumnComponents}

(***************************************************************************)
(* C10: time aggregation of `variable` over the time-slice dimension       *)
(* `column` into the label `value`.  With `components` omitted they        *)
(* default to all labels present in `column` except `value`; per tuple of  *)
(* the remaining dimensions the result holds one row labelled              *)
(* `column = value`, the reduction by `method` of the rows of `variable`   *)
(* whose `column` label is a component; other rows do not contribute and   *)
(* the result's dimensions are in the data set's original order.           *)
(***************************************************************************)
C10_TimeComponents ==
    (Returned("aggregate_time") /\ MethodValid(call.method) /\ ComponentRows # {}) =>
      /\ ret.kind = "series"
      /\ ret.names = df.names
      /\ IsReductionOf(ret.rows, call.method.name, df.rows, ComponentRows,
                       LAMBDA k : [k EXCEPT ![call.column] = call.value])

====
